---- MODULE Spec2Model ----
(***************************************************************************)
(* ModelDescriptor (model_descriptor.py): a Django model's metadata is     *)
(* normalised once, at construction, into an ordered field list plus index *)
(* and unique-constraint lists, and rendered on demand as a markdown       *)
(* document and as a PlantUML entity block.                                *)
(*                                                                         *)
(* Text is modelled as a sequence of one-character strings, so that the    *)
(* conversions the code applies (str.replace, str.upper, str.join and the  *)
(* f-string concatenations) act on characters as they do in the program.   *)
(***************************************************************************)
EXTENDS Naturals, Sequences, FiniteSets

VARIABLES
    model,                 \* the Django model handed to ModelDescriptor(model)
    status,                \* "new" | "built" | "raised": outcome of __init__
    _model_description,    \* self._model_description
    _fields,               \* self._fields
    _db_indexes,           \* self._db_indexes
    _unique_constraints,   \* self._unique_constraints
    markdown_str,          \* value returned by the latest read of .markdown
    plantuml_entity_str    \* value returned by the latest read of .plantuml_entity

vars == <<model, status, _model_description, _fields, _db_indexes,
          _unique_constraints, markdown_str, plantuml_entity_str>>

self_vars == <<_model_description, _fields, _db_indexes, _unique_constraints>>

(***************************************************************************)
(* Bounds of the model.                                                    *)
(***************************************************************************)
MaxCols == 3        \* columns of a table whose key flags and type resolution vary
MaxIdxCols == 2     \* columns of a table whose index/unique flags vary
MaxGroups == 2      \* declared composite groups per index_together / unique_together
MaxLabelCols == 1   \* columns of a table whose names and verbose labels vary
MaxDoc == 3         \* characters of the model docstring

(***************************************************************************)
(* Text helpers: Python's str methods on character sequences.              *)
(***************************************************************************)
RECURSIVE replace(_, _, _)
\* str.replace(old, new) for a one-character `old`: every occurrence, left to right.
replace(s, old, new) ==
    IF s = <<>> THEN <<>>
    ELSE (IF Head(s) = old THEN new ELSE <<Head(s)>>) \o replace(Tail(s), old, new)

LowerCase == <<"a","b","c","d","e","f","g","h","i","j","k","l","m","n","o","p","q","r","s","t","u","v","w","x","y","z">>
UpperCase == <<"A","B","C","D","E","F","G","H","I","J","K","L","M","N","O","P","Q","R","S","T","U","V","W","X","Y","Z">>

\* str.upper(): lower-case letters are mapped, every other character is kept.
upper(s) ==
    [i \in 1..Len(s) |->
        IF \E k \in 1..Len(LowerCase) : LowerCase[k] = s[i]
        THEN UpperCase[CHOOSE k \in 1..Len(LowerCase) : LowerCase[k] = s[i]]
        ELSE s[i]]

RECURSIVE join(_, _)
\* sep.join(parts)
join(sep, parts) ==
    IF parts = <<>> THEN <<>>
    ELSE IF Len(parts) = 1 THEN parts[1]
    ELSE parts[1] \o sep \o join(sep, Tail(parts))

RECURSIVE concat(_)
\* the += accumulation of a loop's pieces
concat(pieces) ==
    IF pieces = <<>> THEN <<>> ELSE Head(pieces) \o concat(Tail(pieces))

(***************************************************************************)
(* Field: the NamedTuple and its two representations.                      *)
(***************************************************************************)
\* Variant of key_tags: the foreign-key tag is written first.
key_tags_fk_first(f) ==
    (IF f.foreign_key THEN <<"F","K",","," ">> ELSE <<>>)
    \o (IF f.primary_key THEN <<"P","K",","," ">> ELSE <<>>)

key_tags(f) ==
    (IF f.primary_key THEN <<"P","K",","," ">> ELSE <<>>)
    \o (IF f.foreign_key THEN <<"F","K",","," ">> ELSE <<>>)

markdown_repr(f) ==
    <<"|"," ">> \o f.name \o <<" ">>
    \o <<"|"," ">> \o key_tags(f) \o f.db_type \o <<" ">>
    \o <<"|"," ">> \o f.description \o <<" ","|","\n">>

plantuml_entity_repr(f) ==
    <<"\t">> \o f.name \o <<":"," ">> \o key_tags(f) \o f.db_type \o <<"\n">>

(***************************************************************************)
(* ModelDescriptor.__init__ and _load.                                     *)
(***************************************************************************)
\* model.__doc__.replace(' ', '').replace('\n', '')
model_description(doc) == replace(replace(doc, " ", <<>>), "\n", <<>>)

\* Variant of description: the label is compared with the name as it is.
description_unreplaced(django_field) ==
    IF django_field.verbose_name # django_field.name
    THEN django_field.verbose_name
    ELSE <<>>

description(django_field) ==
    IF django_field.verbose_name # replace(django_field.name, "_", <<" ">>)
    THEN django_field.verbose_name
    ELSE <<>>

\* Field(...) as built in the loop of _load; db_type(connection) has returned.
Field(django_field) ==
    [name        |-> django_field.name,
     db_type     |-> upper(django_field.db_type.text),
     description |-> description(django_field),
     primary_key |-> django_field.primary_key,
     foreign_key |-> django_field.remote_field,
     choices     |-> django_field.choices]

loaded_fields(fields) == [i \in 1..Len(fields) |-> Field(fields[i])]

names_of(fields) == [i \in 1..Len(fields) |-> fields[i].name]

\* Variant of single_db_indexes: primary keys are not left out.
single_db_indexes_with_pk(fields) ==
    names_of(SelectSeq(fields, LAMBDA c : c.db_index))

single_db_indexes(fields) ==
    names_of(SelectSeq(fields, LAMBDA c : ~c.primary_key /\ c.db_index))

single_unique_constraints(fields) ==
    names_of(SelectSeq(fields, LAMBDA c : ~c.primary_key /\ c.unique))

\* Variant of composite_entries: the names are joined with ", " already.
composite_entries_spaced(together) ==
    [i \in 1..Len(together) |-> join(<<",", " ">>, together[i])]

composite_entries(together) ==
    [i \in 1..Len(together) |-> join(<<",">>, together[i])]

\* list.sort(key=lambda x: x.<key>, reverse=True): a stable insertion of each
\* element behind every element whose key is not smaller (False < True).
sort_reverse(list, key) ==
    LET insert(acc, x) ==
            LET smaller == {i \in 1..Len(acc) : ~acc[i][key] /\ x[key]}
                at == IF smaller = {} THEN Len(acc) + 1
                      ELSE CHOOSE i \in smaller : \A j \in smaller : i <= j
            IN SubSeq(acc, 1, at - 1) \o <<x>> \o SubSeq(acc, at, Len(acc))
        RECURSIVE run(_, _)
        run(acc, i) == IF i > Len(list) THEN acc ELSE run(insert(acc, list[i]), i + 1)
    IN run(<<>>, 1)

\* Variant of sorted_fields: the two sorts are applied in the other order.
sorted_fields_pk_first(fields) ==
    sort_reverse(sort_reverse(fields, "primary_key"), "foreign_key")

sorted_fields(fields) ==
    sort_reverse(sort_reverse(fields, "foreign_key"), "primary_key")

\* Position of the first column whose db_type(connection) call fails; 0 if none.
first_unresolved(fields) ==
    IF \A i \in 1..Len(fields) : fields[i].db_type.ok THEN 0
    ELSE CHOOSE i \in 1..Len(fields) :
            /\ ~fields[i].db_type.ok
            /\ \A j \in 1..(i - 1) : fields[j].db_type.ok

(***************************************************************************)
(* The two renderers.                                                      *)
(***************************************************************************)
markdown(db_table, desc, fields, db_indexes, unique_constraints) ==
    <<"#","#"," ">> \o db_table \o <<"\n">>
    \o desc \o <<"\n","\n">>
    \o <<"#","#","#","#"," ","s","c","h","e","m","a","\n">>
    \o <<"|"," ","f","i","e","l","d","_","n","a","m","e"," ","|"," ","t","y","p","e"," ","|"," ","d","e","s","c","r","i","p","t","i","o","n"," ","|","\n","|","-","-","-","|","-","-","-","|","-","-","-","|","\n">>
    \o concat([i \in 1..Len(fields) |-> markdown_repr(fields[i])])
    \o <<"\n","\n">>
    \o <<"#","#","#","#"," ","a","d","d","i","t","i","o","n","a","l"," ","i","n","f","o","\n">>
    \o <<"|"," ","t","y","p","e"," ","|"," ","v","a","l","u","e"," ","|"," ","d","e","s","c","r","i","p","t","i","o","n"," ","|","\n","|","-","-","-","|","-","-","-","|","-","-","-","|","\n">>
    \o concat([i \in 1..Len(db_indexes) |->
            <<"|"," ","i","n","d","e","x"," ","|"," ">>
            \o replace(db_indexes[i], ",", <<","," ">>) \o <<" ","|"," ","|","\n">>])
    \o concat([i \in 1..Len(unique_constraints) |->
            <<"|"," ","u","n","i","q","u","e"," ","|"," ">>
            \o replace(unique_constraints[i], ",", <<","," ">>) \o <<" ","|"," ","|","\n">>])

\* 0 stands for None; positions are counted from 1.
last_primary_or_foreign_key_index(fields) ==
    LET keys == {i \in 1..Len(fields) : fields[i].primary_key \/ fields[i].foreign_key}
    IN IF keys = {} THEN 0 ELSE CHOOSE i \in keys : \A j \in keys : j <= i

\* Variant of plantuml_entity: a separator follows every key field.
plantuml_entity_sep_each_key(db_table, fields) ==
    <<"e","n","t","i","t","y"," ">> \o db_table \o <<" ","{","\n">>
    \o concat([i \in 1..Len(fields) |->
            plantuml_entity_repr(fields[i])
            \o (IF fields[i].primary_key \/ fields[i].foreign_key
                THEN <<"\t","-","-","\n">> ELSE <<>>)])
    \o <<"}","\n">>

\* Variant of plantuml_entity: without any key field the separator opens the body.
plantuml_entity_sep_always(db_table, fields) ==
    <<"e","n","t","i","t","y"," ">> \o db_table \o <<" ","{","\n">>
    \o (IF last_primary_or_foreign_key_index(fields) = 0
        THEN <<"\t","-","-","\n">> ELSE <<>>)
    \o concat([i \in 1..Len(fields) |->
            plantuml_entity_repr(fields[i])
            \o (IF i = last_primary_or_foreign_key_index(fields)
                THEN <<"\t","-","-","\n">> ELSE <<>>)])
    \o <<"}","\n">>

plantuml_entity(db_table, fields) ==
    <<"e","n","t","i","t","y"," ">> \o db_table \o <<" ","{","\n">>
    \o concat([i \in 1..Len(fields) |->
            plantuml_entity_repr(fields[i])
            \o (IF i = last_primary_or_foreign_key_index(fields)
                THEN <<"\t","-","-","\n">> ELSE <<>>)])
    \o <<"}","\n">>

(***************************************************************************)
(* Inputs.                                                                 *)
(***************************************************************************)
DbTable == <<"t","a","b">>

ColNames == << <<"i","d">>, <<"a","_","b">>, <<"c">>, <<"d","_","e">> >>

\* What django_field.db_type(connection) does: returns a type text, or fails.
DbTypeResult(ok, text) == [ok |-> ok, text |-> IF ok THEN text ELSE <<>>]

DefaultDbType == [ok |-> TRUE, text |-> <<"i","n","t">>]

\* Django's default verbose_name: the field name with underscores as spaces.
default_verbose_name(name) == [i \in 1..Len(name) |-> IF name[i] = "_" THEN " " ELSE name[i]]

Labels ==
    {default_verbose_name(ColNames[i]) : i \in 1..Len(ColNames)}
    \cup {ColNames[i] : i \in 1..Len(ColNames)}
    \cup { <<"L","b","l">>, <<"a","_"," ","b">> }

DocChars == {"a", " ", "\n", "\t", "\r"}

DefaultDoc == <<"a"," ","b","\n">>

RECURSIVE SeqsUpTo(_, _)
SeqsUpTo(S, n) ==
    IF n = 0 THEN {<<>>}
    ELSE LET shorter == SeqsUpTo(S, n - 1)
         IN shorter \cup {Append(s, x) : s \in {t \in shorter : Len(t) = n - 1}, x \in S}

Column(name, dbtype, verbose, pk, fk, idx, uniq) ==
    [name |-> name, db_type |-> dbtype, verbose_name |-> verbose,
     primary_key |-> pk, remote_field |-> fk, db_index |-> idx, unique |-> uniq,
     choices |-> <<>>]

Snapshot(doc, fields, index_together, unique_together) ==
    [db_table |-> DbTable, doc |-> doc, fields |-> fields,
     index_together |-> index_together, unique_together |-> unique_together]

\* Declared composite groups over the first three column names.
IndexGroups ==
    { <<ColNames[1], ColNames[2]>>, <<ColNames[2], ColNames[1]>>,
      <<ColNames[2], ColNames[3]>>, <<ColNames[1], ColNames[2], ColNames[3]>> }

UniqueGroups == { <<ColNames[1], ColNames[2]>>, <<ColNames[3], ColNames[1]>> }

\* The type text the engine reports for the i-th column.
DbTypeAt(i) == IF i % 2 = 1 THEN <<"i","n","t">> ELSE <<"c","h","a","r","(","9",")">>

\* Tables whose key flags vary and whose types may fail to resolve.
KeyTables ==
    \E n \in 0..MaxCols :
        \E ok \in [1..n -> BOOLEAN], pk \in [1..n -> BOOLEAN], fk \in [1..n -> BOOLEAN] :
            model = Snapshot(DefaultDoc,
                             [i \in 1..n |-> Column(ColNames[i], DbTypeResult(ok[i], DbTypeAt(i)),
                                                    default_verbose_name(ColNames[i]),
                                                    pk[i], fk[i], FALSE, FALSE)],
                             <<>>, <<>>)

\* Tables whose index and unique flags vary, with at most one declared group each.
IndexTables ==
    \E n \in 0..MaxIdxCols :
        \E pk \in [1..n -> BOOLEAN], fk \in [1..n -> BOOLEAN],
           idx \in [1..n -> BOOLEAN], uq \in [1..n -> BOOLEAN],
           it \in {<<>>} \cup (IF n >= 2 THEN { << <<ColNames[1], ColNames[2]>> >> } ELSE {}),
           ut \in {<<>>} \cup (IF n >= 2 THEN { << <<ColNames[2], ColNames[1]>> >> } ELSE {}) :
            model = Snapshot(DefaultDoc,
                             [i \in 1..n |-> Column(ColNames[i], DefaultDbType,
                                                    default_verbose_name(ColNames[i]),
                                                    pk[i], fk[i], idx[i], uq[i])],
                             it, ut)

\* Three-column tables whose declared composite groups vary.
TogetherTables ==
    \E it \in SeqsUpTo(IndexGroups, MaxGroups), ut \in SeqsUpTo(UniqueGroups, MaxGroups) :
        model = Snapshot(DefaultDoc,
                         [i \in 1..3 |-> Column(ColNames[i], DefaultDbType,
                                                default_verbose_name(ColNames[i]),
                                                i = 1, FALSE, i = 2, i = 3)],
                         it, ut)

\* Tables whose column names and verbose labels vary.
LabelTables ==
    \E n \in 1..MaxLabelCols :
        \E nm \in {f \in [1..n -> 1..Len(ColNames)] : \A i, j \in 1..n : f[i] = f[j] => i = j},
           lb \in [1..n -> Labels] :
            model = Snapshot(DefaultDoc,
                             [i \in 1..n |-> Column(ColNames[nm[i]], DefaultDbType, lb[i],
                                                    FALSE, FALSE, FALSE, FALSE)],
                             <<>>, <<>>)

\* One-column tables whose docstring varies.
DocTables ==
    \E doc \in SeqsUpTo(DocChars, MaxDoc) :
        model = Snapshot(doc,
                         << Column(ColNames[1], DefaultDbType,
                                   default_verbose_name(ColNames[1]),
                                   TRUE, FALSE, FALSE, FALSE) >>,
                         <<>>, <<>>)

NotRead == <<>>

(***************************************************************************)
(* The state machine.                                                      *)
(***************************************************************************)
Init ==
    /\ (KeyTables \/ IndexTables \/ TogetherTables \/ LabelTables \/ DocTables)
    /\ status = "new"
    /\ _model_description = <<>>
    /\ _fields = <<>>
    /\ _db_indexes = <<>>
    /\ _unique_constraints = <<>>
    /\ markdown_str = NotRead
    /\ plantuml_entity_str = NotRead

\* ModelDescriptor(model) when every db_type(connection) call returns.
Construct ==
    /\ status = "new"
    /\ first_unresolved(model.fields) = 0
    /\ _model_description' = model_description(model.doc)
    /\ _fields' = sorted_fields(loaded_fields(model.fields))
    /\ _db_indexes' = single_db_indexes(model.fields) \o composite_entries(model.index_together)
    /\ _unique_constraints' =
            single_unique_constraints(model.fields) \o composite_entries(model.unique_together)
    /\ status' = "built"
    /\ UNCHANGED <<model, markdown_str, plantuml_entity_str>>

\* Variant of ConstructRaise: the failure is caught and the loop left, so the
\* descriptor is handed out with the columns processed so far.
ConstructSwallow ==
    /\ status = "new"
    /\ first_unresolved(model.fields) # 0
    /\ LET done == SubSeq(model.fields, 1, first_unresolved(model.fields) - 1)
       IN /\ _model_description' = model_description(model.doc)
          /\ _fields' = sorted_fields(loaded_fields(done))
          /\ _db_indexes' = single_db_indexes(done) \o composite_entries(model.index_together)
          /\ _unique_constraints' =
                single_unique_constraints(done) \o composite_entries(model.unique_together)
    /\ status' = "built"
    /\ UNCHANGED <<model, markdown_str, plantuml_entity_str>>

\* ModelDescriptor(model) when a db_type(connection) call fails: the exception
\* leaves _load and __init__, the half-filled object is never bound to a name.
ConstructRaise ==
    /\ status = "new"
    /\ first_unresolved(model.fields) # 0
    /\ LET done == SubSeq(model.fields, 1, first_unresolved(model.fields) - 1)
       IN /\ _model_description' = model_description(model.doc)
          /\ _fields' = loaded_fields(done)
          /\ _db_indexes' = single_db_indexes(done)
          /\ _unique_constraints' = single_unique_constraints(done)
    /\ status' = "raised"
    /\ UNCHANGED <<model, markdown_str, plantuml_entity_str>>

\* descriptor.markdown
ReadMarkdown ==
    /\ status = "built"
    /\ markdown_str' = markdown(model.db_table, _model_description, _fields,
                                _db_indexes, _unique_constraints)
    /\ UNCHANGED <<model, status, self_vars, plantuml_entity_str>>

\* Variant of ReadPlantuml: the fields are popped off the list as they are written.
ReadPlantumlPopping ==
    /\ status = "built"
    /\ plantuml_entity_str' = plantuml_entity(model.db_table, _fields)
    /\ _fields' = <<>>
    /\ UNCHANGED <<model, status, _model_description, _db_indexes, _unique_constraints,
                   markdown_str>>

\* descriptor.plantuml_entity
ReadPlantuml ==
    /\ status = "built"
    /\ plantuml_entity_str' = plantuml_entity(model.db_table, _fields)
    /\ UNCHANGED <<model, status, self_vars, markdown_str>>

Next == Construct \/ ConstructRaise \/ ReadMarkdown \/ ReadPlantuml

Spec == Init /\ [][Next]_vars

(***************************************************************************)
(* Reading the rendered text back: lines, rows and the separator.          *)
(***************************************************************************)
\* text.split('\n'): the last piece is what follows the final line break.
Lines(text) ==
    LET breaks == SelectSeq([i \in 1..Len(text) |-> i], LAMBDA i : text[i] = "\n")
        from(k) == IF k = 1 THEN 1 ELSE breaks[k - 1] + 1
        upto(k) == IF k > Len(breaks) THEN Len(text) ELSE breaks[k] - 1
    IN [k \in 1..(Len(breaks) + 1) |-> SubSeq(text, from(k), upto(k))]

StartsWith(s, prefix) ==
    Len(prefix) <= Len(s) /\ SubSeq(s, 1, Len(prefix)) = prefix

EndsWith(s, suffix) ==
    Len(suffix) <= Len(s) /\ SubSeq(s, Len(s) - Len(suffix) + 1, Len(s)) = suffix

SchemaTitle == <<"#","#","#","#"," ","s","c","h","e","m","a">>
SchemaHeader == <<"|"," ","f","i","e","l","d","_","n","a","m","e"," ","|"," ","t","y","p","e"," ","|"," ","d","e","s","c","r","i","p","t","i","o","n"," ","|">>
HeaderRule == <<"|","-","-","-","|","-","-","-","|","-","-","-","|">>
InfoTitle == <<"#","#","#","#"," ","a","d","d","i","t","i","o","n","a","l"," ","i","n","f","o">>
InfoHeader == <<"|"," ","t","y","p","e"," ","|"," ","v","a","l","u","e"," ","|"," ","d","e","s","c","r","i","p","t","i","o","n"," ","|">>
SeparatorLine == <<"\t","-","-">>

\* The rows of the schema table: the lines after its header rule, up to the blank line.
SchemaRows(md) ==
    LET L == Lines(md)
        blanks == {i \in 7..Len(L) : L[i] = <<>>}
        stop == CHOOSE i \in blanks : \A j \in blanks : i <= j
    IN SubSeq(L, 7, stop - 1)

\* The rows of the additional-info table: the lines after its header rule.
AdditionalRows(md) ==
    LET L == Lines(md)
        title == CHOOSE i \in 7..Len(L) : L[i] = InfoTitle
    IN SubSeq(L, title + 3, Len(L) - 1)

\* The lines between "entity <table> {" and "}".
EntityBody(puml) ==
    LET L == Lines(puml) IN SubSeq(L, 2, Len(L) - 2)

Columns == 1..Len(model.fields)

IsKey(c) == c.primary_key \/ c.remote_field

\* The position of the column called `name` in the input column list.
InputPos(name) == CHOOSE i \in Columns : model.fields[i].name = name

\* The field of the descriptor built from input column c.
FieldOf(c) == _fields[CHOOSE i \in 1..Len(_fields) : _fields[i].name = c.name]

\* The expected rendering of a group of column names: "a, b".
RECURSIVE CommaSpaced(_)
CommaSpaced(group) ==
    IF Len(group) = 0 THEN <<>>
    ELSE IF Len(group) = 1 THEN group[1]
    ELSE group[1] \o <<",", " ">> \o CommaSpaced(Tail(group))

InfoRow(tag, value) == <<"|"," ">> \o tag \o <<" ","|"," ">> \o value \o <<" ","|"," ","|">>

IndexTag == <<"i","n","d","e","x">>
UniqueTag == <<"u","n","i","q","u","e">>

\* The engine's type texts in upper case, written out.
UpperCased(text) ==
    CASE text = <<"i","n","t">> -> <<"I","N","T">>
      [] text = <<"c","h","a","r","(","9",")">> -> <<"C","H","A","R","(","9",")">>

\* The type text both views show for input column c.
TypeText(c) ==
    (IF c.primary_key THEN <<"P","K",","," ">> ELSE <<>>)
    \o (IF c.remote_field THEN <<"F","K",","," ">> ELSE <<>>)
    \o UpperCased(c.db_type.text)

(***************************************************************************)
(* C1. After construction the field list has every primary-key field       *)
(* before every non-primary-key field; among the non-primary-key fields    *)
(* every foreign-key field before every non-foreign-key field; and two     *)
(* fields with the same (primary_key, foreign_key) pair in input order.    *)
(***************************************************************************)
OrderingInvariant ==
    status = "built" =>
        \A i, j \in 1..Len(_fields) :
            i < j =>
                /\ _fields[j].primary_key => _fields[i].primary_key
                /\ (~_fields[i].primary_key /\ ~_fields[j].primary_key
                        /\ _fields[j].foreign_key) => _fields[i].foreign_key
                /\ (/\ _fields[i].primary_key = _fields[j].primary_key
                    /\ _fields[i].foreign_key = _fields[j].foreign_key)
                        => InputPos(_fields[i].name) < InputPos(_fields[j].name)

\* A built table declared as: plain column, foreign key, primary key.
OrderingWitness ==
    /\ status = "built"
    /\ Len(model.fields) = 3
    /\ ~IsKey(model.fields[1])
    /\ model.fields[2].remote_field /\ ~model.fields[2].primary_key
    /\ model.fields[3].primary_key /\ ~model.fields[3].remote_field
    /\ _fields[1].name = model.fields[3].name
    /\ _fields[2].name = model.fields[2].name

(***************************************************************************)
(* C2. In the entity block: when some column is a primary or foreign key   *)
(* there is exactly one separator line, the number of field lines before   *)
(* it is the number of key columns, every key column's line is before it   *)
(* and every other column's line after it; with no key column there is no  *)
(* separator line.                                                         *)
(***************************************************************************)
SeparatorPlacement ==
    plantuml_entity_str # NotRead =>
        LET body == EntityBody(plantuml_entity_str)
            seps == {i \in 1..Len(body) : body[i] = SeparatorLine}
            keys == {i \in Columns : IsKey(model.fields[i])}
            lineOf(c) == {i \in 1..Len(body) :
                            StartsWith(body[i], <<"\t">> \o c.name \o <<":">>)}
        IN IF keys = {} THEN seps = {}
           ELSE /\ seps = {Cardinality(keys) + 1}
                /\ \A k \in Columns :
                       LET c == model.fields[k]
                       IN /\ Cardinality(lineOf(c)) = 1
                          /\ \A i \in lineOf(c), s \in seps :
                                IF IsKey(c) THEN i < s ELSE i > s

\* An entity block read for a table with a plain column declared before two key columns.
SeparatorWitness ==
    /\ plantuml_entity_str # NotRead
    /\ Len(model.fields) = 3
    /\ ~IsKey(model.fields[1])
    /\ IsKey(model.fields[2])
    /\ IsKey(model.fields[3])

(***************************************************************************)
(* C3. A field's description is empty when the column's verbose label is   *)
(* the column name with every underscore replaced by a space, and is the   *)
(* verbose label otherwise; the field's markdown row shows exactly it.     *)
(***************************************************************************)
DescriptionSuppression ==
    status = "built" =>
        LET rows == IF markdown_str = NotRead THEN <<>> ELSE SchemaRows(markdown_str)
        IN \A k \in Columns :
            LET c == model.fields[k]
                expected == IF c.verbose_name = default_verbose_name(c.name)
                            THEN <<>> ELSE c.verbose_name
            IN /\ FieldOf(c).description = expected
               /\ markdown_str # NotRead =>
                    \E i \in 1..Len(rows) :
                        /\ StartsWith(rows[i], <<"|"," ">> \o c.name \o <<" ","|"," ">>)
                        /\ EndsWith(rows[i], <<" ","|"," ">> \o expected \o <<" ","|">>)

\* A rendered column whose name has an underscore and whose label is that name with a space.
DescriptionWitness ==
    /\ markdown_str # NotRead
    /\ \E k \in Columns :
          /\ model.fields[k].name = <<"a","_","b">>
          /\ model.fields[k].verbose_name = <<"a"," ","b">>
          /\ FieldOf(model.fields[k]).description = <<>>

(***************************************************************************)
(* C4. Every declared composite index over columns [a, b] gives exactly    *)
(* one additional-info row tagged index with value "a, b", besides the     *)
(* single-column index rows, which it neither replaces nor merges with;    *)
(* the same for composite unique constraints with tag unique.              *)
(***************************************************************************)
CompositeGrouping ==
    markdown_str # NotRead =>
        LET rows == AdditionalRows(markdown_str)
            tagged(tag) == SelectSeq(rows, LAMBDA r : StartsWith(r, <<"|"," ">> \o tag \o <<" ","|"," ">>))
            singles(flag(_)) == {k \in Columns : ~model.fields[k].primary_key /\ flag(model.fields[k])}
            ok(tag, together, n) ==
                /\ Len(tagged(tag)) = n + Len(together)
                /\ \A g \in 1..Len(together) :
                        tagged(tag)[n + g] = InfoRow(tag, CommaSpaced(together[g]))
                /\ \A i \in 1..n :
                        \E k \in Columns : tagged(tag)[i] = InfoRow(tag, model.fields[k].name)
        IN /\ ok(IndexTag, model.index_together,
                 Cardinality(singles(LAMBDA c : c.db_index)))
           /\ ok(UniqueTag, model.unique_together,
                 Cardinality(singles(LAMBDA c : c.unique)))

\* A rendered table with a composite index over two columns that are also indexed singly.
CompositeWitness ==
    /\ markdown_str # NotRead
    /\ Len(model.index_together) >= 1
    /\ Len(model.index_together[1]) = 2
    /\ \E k \in Columns :
          /\ model.fields[k].name = model.index_together[1][2]
          /\ model.fields[k].db_index /\ ~model.fields[k].primary_key

(***************************************************************************)
(* C5. The table description held by the descriptor is the model's         *)
(* description text with every whitespace character removed: spaces, line  *)
(* breaks, and also tabs and carriage returns.                             *)
(***************************************************************************)
DescriptionAllWhitespaceRemoved ==
    status = "built" =>
        _model_description =
            SelectSeq(model.doc, LAMBDA ch : ch \notin {" ", "\n", "\t", "\r"})

(***************************************************************************)
(* C6. Once the descriptor is built, no read of markdown or of             *)
(* plantuml_entity changes the field list, the index list, the unique      *)
(* constraint list or the table description, and a read returns the same   *)
(* string as the earlier reads of the same view.                           *)
(***************************************************************************)
ReadsArePure ==
    [][status = "built" =>
          /\ self_vars' = self_vars
          /\ model' = model
          /\ markdown_str # NotRead => markdown_str' = markdown_str
          /\ plantuml_entity_str # NotRead => plantuml_entity_str' = plantuml_entity_str]_vars

\* Both views have been read on a descriptor of a table with several columns.
ReadsWitness ==
    /\ markdown_str # NotRead
    /\ plantuml_entity_str # NotRead
    /\ Len(_fields) >= 2
    /\ _db_indexes # <<>>

(***************************************************************************)
(* C7. The additional-info table lists: an index row per non-primary-key   *)
(* indexed column in input order, an index row per declared composite      *)
(* index in declared order, a unique row per non-primary-key unique column *)
(* in input order, a unique row per declared composite unique constraint   *)
(* in declared order. A primary-key column gives no single-column row.     *)
(***************************************************************************)
AdditionalInfoOrder ==
    markdown_str # NotRead =>
        LET nonPk(flag(_)) == SelectSeq(model.fields, LAMBDA c : ~c.primary_key /\ flag(c))
            single(tag, cols) == [i \in 1..Len(cols) |-> InfoRow(tag, cols[i].name)]
            composite(tag, together) ==
                [i \in 1..Len(together) |-> InfoRow(tag, CommaSpaced(together[i]))]
        IN AdditionalRows(markdown_str) =
                single(IndexTag, nonPk(LAMBDA c : c.db_index))
                \o composite(IndexTag, model.index_together)
                \o single(UniqueTag, nonPk(LAMBDA c : c.unique))
                \o composite(UniqueTag, model.unique_together)

\* A rendered table with an indexed, unique primary key, an indexed unique
\* non-key column and both kinds of composite group.
AdditionalInfoWitness ==
    /\ markdown_str # NotRead
    /\ Len(model.fields) >= 2
    /\ model.fields[1].primary_key /\ model.fields[1].db_index /\ model.fields[1].unique
    /\ ~model.fields[2].primary_key /\ model.fields[2].db_index /\ model.fields[2].unique
    /\ model.index_together # <<>>
    /\ model.unique_together # <<>>

(***************************************************************************)
(* C8. When the physical type of a column cannot be resolved, the          *)
(* construction raises: no descriptor is built and nothing is rendered     *)
(* from the columns processed before the failure. A built descriptor holds *)
(* every column, and both views can be read from it.                       *)
(***************************************************************************)
BuildAbortsOnUnresolvedType ==
    /\ (\E k \in Columns : ~model.fields[k].db_type.ok) =>
            /\ status # "built"
            /\ markdown_str = NotRead
            /\ plantuml_entity_str = NotRead
    /\ status = "built" =>
            /\ Len(_fields) = Len(model.fields)
            /\ ENABLED ReadMarkdown
            /\ ENABLED ReadPlantuml

\* The construction has raised at the third column, after two columns were processed.
BuildAbortWitness ==
    /\ status = "raised"
    /\ Len(model.fields) = 3
    /\ model.fields[1].db_type.ok /\ model.fields[2].db_type.ok
    /\ ~model.fields[3].db_type.ok
    /\ Len(_fields) = 2

(***************************************************************************)
(* C9. For a table without columns the construction succeeds and both      *)
(* views render: markdown is the heading, the description and the two      *)
(* table headers with no row; the entity block is the opening line         *)
(* directly followed by the closing line.                                  *)
(***************************************************************************)
EmptyTableRenders ==
    Len(model.fields) = 0 =>
        /\ status # "raised"
        /\ status = "new" => ENABLED Construct
        /\ status = "built" => ENABLED ReadMarkdown /\ ENABLED ReadPlantuml
        /\ markdown_str # NotRead =>
                Lines(markdown_str) =
                    << <<"#","#"," ">> \o model.db_table, _model_description, <<>>,
                       SchemaTitle, SchemaHeader, HeaderRule, <<>>, <<>>,
                       InfoTitle, InfoHeader, HeaderRule, <<>> >>
        /\ plantuml_entity_str # NotRead =>
                Lines(plantuml_entity_str) =
                    << <<"e","n","t","i","t","y"," ">> \o model.db_table \o <<" ","{">>,
                       <<"}">>, <<>> >>

\* Both views have been read for a table without columns.
EmptyTableWitness ==
    /\ Len(model.fields) = 0
    /\ status = "built"
    /\ markdown_str # NotRead
    /\ plantuml_entity_str # NotRead

(***************************************************************************)
(* C10. The schema table and the entity block each hold exactly one line   *)
(* per input column, in the same order, and both show for a column the     *)
(* same type text: "PK, " if primary key, then "FK, " if foreign key, then *)
(* the upper-cased physical type.                                          *)
(***************************************************************************)
OneLinePerColumn ==
    (markdown_str # NotRead /\ plantuml_entity_str # NotRead) =>
        LET rows == SchemaRows(markdown_str)
            lines == SelectSeq(EntityBody(plantuml_entity_str),
                               LAMBDA l : l # SeparatorLine)
            at(c) == {i \in 1..Len(rows) :
                        StartsWith(rows[i], <<"|"," ">> \o c.name \o <<" ","|"," ">>)}
        IN /\ Len(rows) = Len(model.fields)
           /\ Len(lines) = Len(model.fields)
           /\ \A k \in Columns :
                  LET c == model.fields[k]
                  IN /\ Cardinality(at(c)) = 1
                     /\ \A i \in at(c) :
                          /\ StartsWith(rows[i],
                                <<"|"," ">> \o c.name \o <<" ","|"," ">>
                                \o TypeText(c) \o <<" ","|"," ">>)
                          /\ lines[i] = <<"\t">> \o c.name \o <<":"," ">> \o TypeText(c)

\* Both views read for a three-column table with a column that is both
\* primary and foreign key and a column of each physical type.
OneLineWitness ==
    /\ markdown_str # NotRead
    /\ plantuml_entity_str # NotRead
    /\ Len(model.fields) = 3
    /\ \E k \in Columns : model.fields[k].primary_key /\ model.fields[k].remote_field
    /\ \E k \in Columns : model.fields[k].db_type.text = <<"i","n","t">>
    /\ \E k \in Columns : model.fields[k].db_type.text = <<"c","h","a","r","(","9",")">>

====
